---- MODULE Spec2Model ----
(***************************************************************************)
(* Model of fetch_and_translate.py: the changelog document (parse, build,  *)
(* trim), the diff formatter and the run sequence of main().               *)
(*                                                                         *)
(* Text is a sequence of characters, one string token per character.       *)
(* Three kinds of character have no literal of their own and are named:    *)
(* "\n" is the line feed, "bq" is the backtick, and "U+XXXX" is the        *)
(* character with that code point.                                         *)
(***************************************************************************)
EXTENDS Integers, Sequences, FiniteSets, TLC

\* ------------------------------------------------------------------------
\* Configuration constants (fetch_and_translate.py, lines 38-46)
\* ------------------------------------------------------------------------

CHANGELOG_HEADER ==
    <<"#", "#", "#", "#", "#", "#", " ", "t", "a", "g", "s", ":", " ", "bq", "a", "i",
    "bq", " ", "bq", "g", "e", "m", "i", "n", "i", "bq", " ", "bq", "c", "o", "p", "i",
    "l", "o", "t", "bq", "\n", "\n", "#", " ", "G", "e", "m", "i", "n", "i", " ", "C",
    "L", "I", " ", "&", " ", "G", "i", "t", "H", "u", "b", " ", "C", "o", "p", "i", "l",
    "o", "t", " ", "C", "L", "I", " ", "U+6307", "U+4EE4", "U+66F4", "U+65B0", " ", "C",
    "h", "a", "n", "g", "e", "l", "o", "g", "\n", "\n">>

ENTRY_SEPARATOR ==
    <<"\n", "-", "-", "-", "\n", "\n">>

\* The literal of content.startswith("###### tags") in parse_changelog.
TAG_PREFIX ==
    <<"#", "#", "#", "#", "#", "#", " ", "t", "a", "g", "s">>

\* The literal of content.find("\n## ") in parse_changelog.
ENTRY_START ==
    <<"\n", "#", "#", " ">>

\* The literal of e.strip().startswith("## ") in parse_changelog.
ENTRY_MARK ==
    <<"#", "#", " ">>

\* ------------------------------------------------------------------------
\* Python str operations used by the program
\* ------------------------------------------------------------------------

\* The characters str.strip() removes, among those the model's texts use.
Whitespace == {" ", "\t", "\n", "\r", "\f"}

MinOf(S) == CHOOSE i \in S : \A j \in S : i <= j

\* s.startswith(p)
StartsWith(s, p) == Len(s) >= Len(p) /\ SubSeq(s, 1, Len(p)) = p

\* The 0-based offsets at which p occurs in s (p is never empty here).
Occurrences(s, p) ==
    {i \in 0..(Len(s) - Len(p)) : s[i + 1] = p[1] /\ SubSeq(s, i + 1, i + Len(p)) = p}

\* s.find(p): the lowest 0-based offset of p in s, or -1.
Find(s, p) ==
    LET hits == Occurrences(s, p)
    IN  IF hits = {} THEN -1 ELSE MinOf(hits)

\* s.lstrip()
RECURSIVE LStrip(_)
LStrip(s) ==
    IF s # <<>> /\ s[1] \in Whitespace THEN LStrip(Tail(s)) ELSE s

\* s.rstrip()
RECURSIVE RStrip(_)
RStrip(s) ==
    IF s # <<>> /\ s[Len(s)] \in Whitespace THEN RStrip(SubSeq(s, 1, Len(s) - 1)) ELSE s

\* s.strip()
Strip(s) == LStrip(RStrip(s))

\* s.split(sep): cut at the leftmost occurrence, then split the rest.
RECURSIVE Split(_, _)
Split(s, sep) ==
    LET i == Find(s, sep)
    IN  IF i = -1
        THEN <<s>>
        ELSE <<SubSeq(s, 1, i)>> \o Split(SubSeq(s, i + Len(sep) + 1, Len(s)), sep)

\* "".join(parts)
RECURSIVE Concat(_)
Concat(parts) == IF parts = <<>> THEN <<>> ELSE parts[1] \o Concat(Tail(parts))

\* sep.join(parts)
RECURSIVE Join(_, _)
Join(sep, parts) ==
    IF parts = <<>> THEN <<>>
    ELSE IF Len(parts) = 1 THEN parts[1]
    ELSE parts[1] \o sep \o Join(sep, Tail(parts))

\* ------------------------------------------------------------------------
\* Changelog helpers
\* ------------------------------------------------------------------------

\* IsEntryChunk without the strip(): a chunk counts only when the marker is
\* its very first text.
IsEntryChunk_unstripped(e) == StartsWith(e, ENTRY_MARK)

\* The list comprehension of parse_changelog: the chunks that are entries.
IsEntryChunk(e) == StartsWith(Strip(e), ENTRY_MARK)

\* The tail of parse_changelog: split the body, keep the entry chunks.
ParseBody(header, body) ==
    <<header, SelectSeq(Split(body, ENTRY_SEPARATOR), IsEntryChunk)>>

\* parse_changelog(content) -> (header, entries)
parse_changelog(content) ==
    IF StartsWith(content, TAG_PREFIX)
    THEN LET idx == Find(content, ENTRY_START)
         IN  IF idx = -1
             THEN <<content, <<>>>>
             ELSE ParseBody(SubSeq(content, 1, idx + 1),
                            SubSeq(content, idx + 2, Len(content)))
    ELSE ParseBody(CHANGELOG_HEADER, content)

\* build_changelog with the entries concatenated instead of joined.
build_changelog_unjoined(header, entries) ==
    IF entries = <<>>
    THEN header
    ELSE header \o Concat(entries) \o ENTRY_SEPARATOR

\* build_changelog(header, entries) -> str
build_changelog(header, entries) ==
    IF entries = <<>>
    THEN header
    ELSE header \o Join(ENTRY_SEPARATOR, entries) \o ENTRY_SEPARATOR

\* ------------------------------------------------------------------------
\* Diff helper
\* ------------------------------------------------------------------------

\* old.splitlines(keepends=True): the lines of s, each with its line feed.
\* The texts of the model hold no other line boundary than "\n".
RECURSIVE SplitLines(_)
SplitLines(s) ==
    LET i == Find(s, <<"\n">>)
    IN  IF s = <<>> THEN <<>>
        ELSE IF i = -1 THEN <<s>>
        ELSE <<SubSeq(s, 1, i + 1)>> \o SplitLines(SubSeq(s, i + 2, Len(s)))

\* The blocks a[i:i+k] == b[j:j+k] with alo <= i, i+k <= ahi, blo <= j,
\* j+k <= bhi and k > 0 (0-based offsets into the line lists).
CommonBlocks(a, b, alo, ahi, blo, bhi) ==
    {m \in (alo..(ahi - 1)) \X (blo..(bhi - 1)) \X (1..(ahi - alo)) :
        /\ m[1] + m[3] <= ahi
        /\ m[2] + m[3] <= bhi
        /\ SubSeq(a, m[1] + 1, m[1] + m[3]) = SubSeq(b, m[2] + 1, m[2] + m[3])}

\* SequenceMatcher.find_longest_match: the longest block, of those the one
\* starting earliest in a, of those the one starting earliest in b.
LongestMatch(a, b, alo, ahi, blo, bhi) ==
    LET ms == CommonBlocks(a, b, alo, ahi, blo, bhi)
    IN  CHOOSE m \in ms : \A o \in ms :
            \/ m[3] > o[3]
            \/ m[3] = o[3] /\ m[1] < o[1]
            \/ m[3] = o[3] /\ m[1] = o[1] /\ m[2] <= o[2]

\* SequenceMatcher.get_matching_blocks, without the closing (la, lb, 0):
\* the longest match, then the same to its left and to its right.
RECURSIVE MatchingBlocks(_, _, _, _, _, _)
MatchingBlocks(a, b, alo, ahi, blo, bhi) ==
    IF CommonBlocks(a, b, alo, ahi, blo, bhi) = {}
    THEN <<>>
    ELSE LET m == LongestMatch(a, b, alo, ahi, blo, bhi)
         IN  MatchingBlocks(a, b, alo, m[1], blo, m[2])
             \o <<m>>
             \o MatchingBlocks(a, b, m[1] + m[3], ahi, m[2] + m[3], bhi)

\* Every line of lines[from+1 .. to] behind the sign character.
Signed(sign, lines, from, to) ==
    Concat([k \in 1..(to - from) |-> <<sign>> \o lines[from + k]])

\* The body of a hunk: get_opcodes walked by unified_diff. Before each
\* matching block the lines only in a ("-") and those only in b ("+"), then
\* the block itself (" "); after the last block the rest of a and of b.
RECURSIVE HunkBody(_, _, _, _, _)
HunkBody(a, b, blocks, i, j) ==
    IF blocks = <<>>
    THEN Signed("-", a, i, Len(a)) \o Signed("+", b, j, Len(b))
    ELSE LET m == blocks[1]
         IN  Signed("-", a, i, m[1]) \o Signed("+", b, j, m[2])
             \o Signed(" ", a, m[1], m[1] + m[3])
             \o HunkBody(a, b, Tail(blocks), m[1] + m[3], m[2] + m[3])

DigitChars == <<"0", "1", "2", "3", "4", "5", "6", "7", "8", "9">>

\* '{}'.format(n) for n >= 0
RECURSIVE ToStr(_)
ToStr(n) ==
    IF n < 10 THEN <<DigitChars[n + 1]>>
    ELSE ToStr(n \div 10) \o <<DigitChars[(n % 10) + 1]>>

\* difflib._format_range_unified(0, length)
FormatRange(length) ==
    IF length = 1 THEN ToStr(1)
    ELSE IF length = 0 THEN ToStr(0) \o <<",">> \o ToStr(0)
    ELSE ToStr(1) \o <<",">> \o ToStr(length)

FROM_FILE ==
    <<"U+4E0A", "U+4E00", "U+7248">>

TO_FILE ==
    <<"U+672C", "U+6B21">>

\* "".join(unified_diff(a, b, fromfile, tofile, lineterm="")) for line lists
\* of at most three lines each: with three lines of context every line is in
\* the one hunk. The two file lines and the hunk line end in no line feed.
UnifiedDiff(a, b) ==
    IF a = b
    THEN <<>>
    ELSE <<"-", "-", "-", " ">> \o FROM_FILE
         \o <<"+", "+", "+", " ">> \o TO_FILE
         \o <<"@", "@", " ", "-">> \o FormatRange(Len(a))
         \o <<" ", "+">> \o FormatRange(Len(b)) \o <<" ", "@", "@">>
         \o HunkBody(a, b, MatchingBlocks(a, b, 0, Len(a), 0, Len(b)), 0, 0)

DIFF_OPEN ==
    <<"\n", "\n", "bq", "bq", "bq", "d", "i", "f", "f", "\n">>

DIFF_CLOSE ==
    <<"\n", "bq", "bq", "bq", "\n">>

\* build_diff_markdown(old, new, title) -> str
build_diff_markdown(old, new, title) ==
    LET body == UnifiedDiff(SplitLines(old), SplitLines(new))
    IN  IF body = <<>>
        THEN <<>>
        ELSE <<"#", "#", "#", " ">> \o title \o DIFF_OPEN \o body \o DIFF_CLOSE

\* ------------------------------------------------------------------------
\* Inputs of the parse/build specification
\* ------------------------------------------------------------------------

\* Longest entry list handed to build_changelog.
MaxEntriesIn == 3

\* Most pieces a raw document handed to parse_changelog is made of.
MaxPieces == 4

H_TAGS_NL ==
    <<"#", "#", "#", "#", "#", "#", " ", "t", "a", "g", "s", "\n">>

H_TAGS ==
    <<"#", "#", "#", "#", "#", "#", " ", "t", "a", "g", "s">>

H_PLAIN ==
    <<"#", " ", "l", "o", "g", "\n">>

H_WITH_ENTRY ==
    <<"#", "#", "#", "#", "#", "#", " ", "t", "a", "g", "s", "\n", "#", "#", " ", "x",
    "\n">>

E_A ==
    <<"#", "#", " ", "a", "\n">>

E_B ==
    <<"#", "#", " ", "b">>

E_RULE ==
    <<"#", "#", " ", "c", "\n", "-", "-", "-", "\n">>

E_SEP ==
    <<"#", "#", " ", "d", "\n", "-", "-", "-", "\n", "\n", "#", "#", " ", "e">>

E_JUNK ==
    <<"j", "u", "n", "k">>

E_INDENT ==
    <<" ", "#", "#", " ", "f">>

E_BLANK ==
    <<"#", "#", " ", "\n">>

P_RULE ==
    <<"\n", "-", "-", "-", "\n">>

P_ENTRY ==
    <<"#", "#", " ", "a">>

\* Headers: the default, a bare tag line with and without its newline, one
\* without the tag prefix, one that holds an entry start, and the empty one.
HeaderInputs == {CHANGELOG_HEADER, H_TAGS_NL, H_TAGS, H_PLAIN, H_WITH_ENTRY, <<>>}

\* Entries: with and without a final newline, one ending in a rule line, one
\* holding the separator, one without the marker, one indented, one blank
\* behind the marker.
EntryInputs == {E_A, E_B, E_RULE, E_SEP, E_JUNK, E_INDENT, E_BLANK}

SeqsUpTo(S, n) == UNION {[1..k -> S] : k \in 0..n}

\* Pieces raw documents are concatenated from.
RawPieces == {TAG_PREFIX, <<"\n">>, <<" ">>, <<"x">>, P_ENTRY, P_RULE, ENTRY_SEPARATOR}

RawDocuments == {Concat(ps) : ps \in SeqsUpTo(RawPieces, MaxPieces)}

\* ------------------------------------------------------------------------
\* Inputs of the run specification
\* ------------------------------------------------------------------------

\* Runs of main() in one behaviour.
MaxRuns == 2

\* Largest CHANGELOG_MAX_ENTRIES the environment configures; the smallest is -1.
MaxLimit == 2

TITLE_GEMINI ==
    <<"G", "o", "o", "g", "l", "e", " ", "G", "e", "m", "i", "n", "i", " ", "C", "L", "I">>

TITLE_COPILOT ==
    <<"G", "i", "t", "H", "u", "b", " ", "C", "o", "p", "i", "l", "o", "t", " ", "C",
    "L", "I">>

NO_CHANGE_GEMINI ==
    <<"#", "#", "#", " ", "G", "o", "o", "g", "l", "e", " ", "G", "e", "m", "i", "n",
    "i", " ", "C", "L", "I", "\n", "\n", "U+FF08", "U+7121", "U+8B8A", "U+66F4",
    "U+FF09", "\n">>

NO_CHANGE_COPILOT ==
    <<"#", "#", "#", " ", "G", "i", "t", "H", "u", "b", " ", "C", "o", "p", "i", "l",
    "o", "t", " ", "C", "L", "I", "\n", "\n", "U+FF08", "U+7121", "U+8B8A", "U+66F4",
    "U+FF09", "\n">>

FIRST_RUN_NOTE ==
    <<"U+FF08", "U+9996", "U+6B21", "U+57F7", "U+884C", "U+FF0C", "U+7121", "U+524D",
    "U+6B21", "U+8CC7", "U+6599", "U+53EF", "U+6BD4", "U+8F03", "U+FF09">>

\* Date and hour of now_str; the runs of a behaviour differ in the minute.
DATE_HOUR ==
    <<"2", "0", "2", "6", "-", "0", "1", "-", "0", "1", " ", "0", "0", ":">>

UTC_SUFFIX ==
    <<" ", "U", "T", "C">>

DOC_A ==
    <<"a", "\n">>

DOC_A_RULE ==
    <<"a", "\n", "-", "-", "\n">>

PAGE_C ==
    <<"c">>

PAGE_C_RULE ==
    <<"c", "\n", "\n", "-", "-">>

OLD_ENTRY_1 ==
    <<"#", "#", " ", "o", "l", "d", " ", "1", "\n", "\n", "x", "\n">>

OLD_ENTRY_2 ==
    <<"#", "#", " ", "o", "l", "d", " ", "2", "\n", "\n", "y", "\n">>

LOG_PLAIN ==
    <<"n", "o", "t", "e", "s", "\n", "-", "-", "-", "\n", "\n", "#", "#", " ", "o", "l",
    "d", " ", "1", "\n", "\n", "x", "\n", "\n", "-", "-", "-", "\n", "\n">>

\* What fetch_gemini_cli_docs can return: the raw markdown, as served.
GeminiDocs == {DOC_A, DOC_A_RULE}

\* What fetch_github_copilot_docs can return: extracted text, stripped.
CopilotDocs == {PAGE_C, PAGE_C_RULE}

NoFile == [exists |-> FALSE, text |-> <<>>]

File(text) == [exists |-> TRUE, text |-> text]

\* changelog.md before the first run: absent, empty, written by earlier runs
\* (two entries under the default header), a bare tag line without its line
\* feed, and notes without the tag line.
InitialChangelogs ==
    {NoFile, File(<<>>), File(H_TAGS), File(LOG_PLAIN),
     File(build_changelog(CHANGELOG_HEADER, <<OLD_ENTRY_1, OLD_ENTRY_2>>))}

NoCache == [exists |-> FALSE, gemini_cli |-> <<>>, github_copilot |-> <<>>]

\* What translate_with_gemini returns: the translation of content under title.
Translation(content, title) == [source |-> content, title |-> title]

NoTranslation == Translation(<<>>, <<>>)

NoOutput ==
    [exists |-> FALSE, now |-> <<>>, gemini |-> NoTranslation, copilot |-> NoTranslation]

NoArgs == [header |-> <<>>, entries |-> <<"none">>]

VARIABLES
    phase,                     \* parse/build: "off", "args", "raw", "built", "parsed"
    args,                      \* the (header, entries) handed to build_changelog
    document,                  \* the changelog text built or to be parsed
    parsed,                    \* the (header, entries) parse_changelog returned
    pc,                        \* position of the run in main(), "idle" between runs
    exit,                      \* how the latest run ended
    runs,                      \* runs started so far
    clock,                     \* the minute of the wall clock
    max_entries,               \* CHANGELOG_MAX_ENTRIES
    cacheFile,                 \* _cache.json
    changelogFile,             \* changelog.md
    outputFile,                \* output.md
    now_str,                   \* locals of main()
    cache,
    gemini_cli_raw,
    github_copilot_raw,
    diff_gemini,
    diff_copilot,
    new_entry,
    existing,
    header,
    entries,
    gemini_cli_translated,
    github_copilot_translated,
    translate_calls,           \* calls of translate_with_gemini in this run
    origin,                    \* history: changelog.md before the first run
    written,                   \* history: the entries runs added, newest first
    atStart                    \* history: changelog.md and output.md when the run began

docVars == <<phase, args, document, parsed>>

files == <<cacheFile, changelogFile, outputFile>>

changelogLocals == <<diff_gemini, diff_copilot, new_entry, existing, header, entries>>

locals ==
    <<now_str, cache, gemini_cli_raw, github_copilot_raw, changelogLocals,
      gemini_cli_translated, github_copilot_translated, translate_calls>>

ghosts == <<origin, written, atStart>>

runVars == <<pc, exit, runs, clock, max_entries, files, locals, ghosts>>

vars == <<docVars, runVars>>

\* ------------------------------------------------------------------------
\* Parse/build specification: parse_changelog and build_changelog applied
\* to bounded inputs
\* ------------------------------------------------------------------------

NoRun ==
    /\ pc = "idle" /\ exit = "none" /\ runs = 0 /\ clock = 0
    /\ cacheFile = NoCache /\ outputFile = NoOutput
    /\ now_str = <<>> /\ cache = NoCache
    /\ gemini_cli_raw = <<>> /\ github_copilot_raw = <<>>
    /\ diff_gemini = <<>> /\ diff_copilot = <<>> /\ new_entry = <<>>
    /\ existing = <<>> /\ header = <<>> /\ entries = <<>>
    /\ gemini_cli_translated = NoTranslation
    /\ github_copilot_translated = NoTranslation
    /\ translate_calls = 0
    /\ written = <<>>
    /\ atStart = [changelog |-> NoFile, output |-> NoOutput]

InitDoc ==
    /\ NoRun
    /\ max_entries = 0
    /\ changelogFile = NoFile
    /\ origin = NoFile
    /\ parsed = <<<<>>, <<>>>>
    /\ \/ /\ phase = "args"
          /\ args \in [header : HeaderInputs, entries : SeqsUpTo(EntryInputs, MaxEntriesIn)]
          /\ document = <<>>
       \/ /\ phase = "raw"
          /\ args = NoArgs
          /\ document \in RawDocuments

Build ==
    /\ phase = "args"
    /\ document' = build_changelog(args.header, args.entries)
    /\ phase' = "built"
    /\ UNCHANGED <<args, parsed, runVars>>

Parse ==
    /\ phase \in {"raw", "built"}
    /\ parsed' = parse_changelog(document)
    /\ phase' = "parsed"
    /\ UNCHANGED <<args, document, runVars>>

NextDoc == Build \/ Parse

SpecDoc == InitDoc /\ [][NextDoc]_vars

\* ------------------------------------------------------------------------
\* Run specification: main(), one action per step that can end the run
\* ------------------------------------------------------------------------

\* now_dt.strftime("%Y-%m-%d %H:%M UTC") at minute m of the modelled hour.
NowStr(m) ==
    DATE_HOUR \o <<DigitChars[(m \div 10) + 1], DigitChars[(m % 10) + 1]>> \o UTC_SUFFIX

\* cache.get(key, "")
CacheGet(c, key) ==
    IF ~c.exists THEN <<>>
    ELSE IF key = "gemini_cli" THEN c.gemini_cli ELSE c.github_copilot

\* x or y, for strings
Or(x, y) == IF x # <<>> THEN x ELSE y

\* AnyChange with the test of the diffs lost: every run counts as a change.
AnyChange_always(dg, dc) == TRUE

\* Line 228: diff_gemini or diff_copilot
AnyChange(dg, dc) == dg # <<>> \/ dc # <<>>

\* Line 250: not diff_gemini and not diff_copilot
NoChange(dg, dc) == dg = <<>> /\ dc = <<>>

\* CacheContent with the second source forgotten.
CacheContent_gemini_only(g, c) ==
    [exists |-> TRUE, gemini_cli |-> g, github_copilot |-> <<>>]

\* Line 247: the dict handed to save_cache, as load_cache reads it back.
CacheContent(g, c) == [exists |-> TRUE, gemini_cli |-> g, github_copilot |-> c]

\* OutputDocument with the first translation under both headings.
OutputDocument_first_twice(now, g, c) ==
    [exists |-> TRUE, now |-> now, gemini |-> g, copilot |-> g]

\* Lines 259-285: output.md, the template filled with the time stamp and the
\* two translations.
OutputDocument(now, g, c) ==
    [exists |-> TRUE, now |-> now, gemini |-> g, copilot |-> c]

\* Step 4, line 233: the new entry.
NewEntry(now, is_first_run, dg, dc) ==
    ENTRY_MARK \o now \o <<" ">>
    \o (IF is_first_run THEN FIRST_RUN_NOTE ELSE <<>>)
    \o <<"\n", "\n">>
    \o Or(dg, NO_CHANGE_GEMINI) \o <<"\n">> \o Or(dc, NO_CHANGE_COPILOT)

\* TrimEntries cutting one entry late: es[:limit + 1].
TrimEntries_one_more(es, limit) ==
    IF limit > 0
    THEN SubSeq(es, 1, IF limit + 1 < Len(es) THEN limit + 1 ELSE Len(es))
    ELSE es

\* TrimEntries keeping the last limit entries: the newest are dropped.
TrimEntries_drop_newest(es, limit) ==
    IF limit > 0
    THEN SubSeq(es, (IF limit < Len(es) THEN Len(es) - limit ELSE 0) + 1, Len(es))
    ELSE es

\* Step 4, lines 239-240: keep the first limit entries when limit is positive.
TrimEntries(es, limit) ==
    IF limit > 0
    THEN SubSeq(es, 1, IF limit < Len(es) THEN limit ELSE Len(es))
    ELSE es

Init ==
    /\ NoRun
    /\ max_entries \in -1..MaxLimit
    /\ changelogFile \in InitialChangelogs
    /\ origin = changelogFile
    /\ phase = "off" /\ args = NoArgs /\ document = <<>> /\ parsed = <<<<>>, <<>>>>

\* Line 209: GEMINI_API_KEY is empty, the run exits before any step.
ConfigError ==
    /\ pc = "idle" /\ runs < MaxRuns
    /\ runs' = runs + 1
    /\ exit' = "config_error"
    /\ UNCHANGED <<docVars, pc, clock, max_entries, files, locals, ghosts>>

\* Lines 213-217: read the clock, load the cache.
Start ==
    /\ pc = "idle" /\ runs < MaxRuns
    /\ runs' = runs + 1
    /\ clock' = clock + 1
    /\ now_str' = NowStr(clock')
    /\ cache' = cacheFile
    /\ gemini_cli_raw' = <<>> /\ github_copilot_raw' = <<>>
    /\ diff_gemini' = <<>> /\ diff_copilot' = <<>> /\ new_entry' = <<>>
    /\ existing' = <<>> /\ header' = <<>> /\ entries' = <<>>
    /\ gemini_cli_translated' = NoTranslation
    /\ github_copilot_translated' = NoTranslation
    /\ translate_calls' = 0
    /\ pc' = "fetch_gemini"
    /\ exit' = "running"
    /\ atStart' = [changelog |-> changelogFile, output |-> outputFile]
    /\ UNCHANGED <<docVars, max_entries, files, origin, written>>

\* Line 220
FetchGemini ==
    /\ pc = "fetch_gemini"
    /\ gemini_cli_raw' \in GeminiDocs
    /\ pc' = "fetch_copilot"
    /\ UNCHANGED <<docVars, exit, runs, clock, max_entries, files, now_str, cache,
                   github_copilot_raw, changelogLocals, gemini_cli_translated,
                   github_copilot_translated, translate_calls, ghosts>>

\* Line 221
FetchCopilot ==
    /\ pc = "fetch_copilot"
    /\ github_copilot_raw' \in CopilotDocs
    /\ pc' = "changelog"
    /\ UNCHANGED <<docVars, exit, runs, clock, max_entries, files, now_str, cache,
                   gemini_cli_raw, changelogLocals, gemini_cli_translated,
                   github_copilot_translated, translate_calls, ghosts>>

\* Lines 120 and 132: a request raises, the run ends.
FetchFails ==
    /\ pc \in {"fetch_gemini", "fetch_copilot"}
    /\ pc' = "idle"
    /\ exit' = "fetch_error"
    /\ UNCHANGED <<docVars, runs, clock, max_entries, files, locals, ghosts>>

\* Lines 224-244: the two diffs and, when one is not empty, the changelog.
UpdateChangelog ==
    /\ pc = "changelog"
    /\ diff_gemini' =
           build_diff_markdown(CacheGet(cache, "gemini_cli"), gemini_cli_raw, TITLE_GEMINI)
    /\ diff_copilot' =
           build_diff_markdown(CacheGet(cache, "github_copilot"), github_copilot_raw,
                               TITLE_COPILOT)
    /\ IF AnyChange(diff_gemini', diff_copilot')
       THEN /\ new_entry' = NewEntry(now_str, ~cache.exists, diff_gemini', diff_copilot')
            /\ existing' = (IF changelogFile.exists THEN changelogFile.text ELSE <<>>)
            /\ LET found == parse_changelog(existing')
               IN  /\ header' = found[1]
                   /\ entries' = TrimEntries(<<new_entry'>> \o found[2], max_entries)
            /\ changelogFile' =
                   File(build_changelog(IF existing' # <<>> THEN header'
                                        ELSE CHANGELOG_HEADER, entries'))
            /\ written' = <<new_entry'>> \o written
       ELSE UNCHANGED <<new_entry, existing, header, entries, changelogFile, written>>
    /\ pc' = "save_cache"
    /\ UNCHANGED <<docVars, exit, runs, clock, max_entries, cacheFile, outputFile,
                   now_str, cache, gemini_cli_raw, github_copilot_raw,
                   gemini_cli_translated, github_copilot_translated, translate_calls,
                   origin, atStart>>

\* Lines 247-252: save the cache; return when neither diff holds anything.
SaveCache ==
    /\ pc = "save_cache"
    /\ cacheFile' = CacheContent(gemini_cli_raw, github_copilot_raw)
    /\ IF NoChange(diff_gemini, diff_copilot)
       THEN pc' = "idle" /\ exit' = "skipped"
       ELSE pc' = "translate_gemini" /\ exit' = exit
    /\ UNCHANGED <<docVars, runs, clock, max_entries, changelogFile, outputFile, locals,
                   ghosts>>

\* Line 255
TranslateGemini ==
    /\ pc = "translate_gemini"
    /\ translate_calls' = translate_calls + 1
    /\ gemini_cli_translated' = Translation(gemini_cli_raw, TITLE_GEMINI)
    /\ pc' = "translate_copilot"
    /\ UNCHANGED <<docVars, exit, runs, clock, max_entries, files, now_str, cache,
                   gemini_cli_raw, github_copilot_raw, changelogLocals,
                   github_copilot_translated, ghosts>>

\* Line 256
TranslateCopilot ==
    /\ pc = "translate_copilot"
    /\ translate_calls' = translate_calls + 1
    /\ github_copilot_translated' = Translation(github_copilot_raw, TITLE_COPILOT)
    /\ pc' = "write_output"
    /\ UNCHANGED <<docVars, exit, runs, clock, max_entries, files, now_str, cache,
                   gemini_cli_raw, github_copilot_raw, changelogLocals,
                   gemini_cli_translated, ghosts>>

\* Line 201: the call of the translation service raises, the run ends.
TranslateFails ==
    /\ pc \in {"translate_gemini", "translate_copilot"}
    /\ translate_calls' = translate_calls + 1
    /\ pc' = "idle"
    /\ exit' = "translate_error"
    /\ UNCHANGED <<docVars, runs, clock, max_entries, files, now_str, cache,
                   gemini_cli_raw, github_copilot_raw, changelogLocals,
                   gemini_cli_translated, github_copilot_translated, ghosts>>

\* Lines 259-291: assemble output.md and write it.
WriteOutput ==
    /\ pc = "write_output"
    /\ outputFile' =
           OutputDocument(now_str, gemini_cli_translated, github_copilot_translated)
    /\ pc' = "idle"
    /\ exit' = "done"
    /\ UNCHANGED <<docVars, runs, clock, max_entries, cacheFile, changelogFile, locals,
                   ghosts>>

Next ==
    \/ ConfigError
    \/ Start
    \/ FetchGemini
    \/ FetchCopilot
    \/ FetchFails
    \/ UpdateChangelog
    \/ SaveCache
    \/ TranslateGemini
    \/ TranslateCopilot
    \/ TranslateFails
    \/ WriteOutput

Spec == Init /\ [][Next]_vars

\* ------------------------------------------------------------------------
\* Properties of parse_changelog and build_changelog (under SpecDoc)
\* ------------------------------------------------------------------------

\* s ends with p.
EndsWith(s, p) == Len(s) >= Len(p) /\ SubSeq(s, Len(s) - Len(p) + 1, Len(s)) = p

\* p occurs in s.
Contains(s, p) ==
    \E i \in 1..(Len(s) - Len(p) + 1) : SubSeq(s, i, i + Len(p) - 1) = p

\* An entry as the round-trip claim takes it: it starts with the marker and
\* holds no separator.
WellFormedEntry(e) == StartsWith(e, ENTRY_MARK) /\ ~Contains(e, ENTRY_SEPARATOR)

AllWellFormed(es) == \A i \in 1..Len(es) : WellFormedEntry(es[i])

\* A document was built from args and parsed back.
RoundTripDone == phase = "parsed" /\ args # NoArgs

\* C1 as stated: for any header H and any list E of entries, each starting
\* with "## " and holding no separator, parse_changelog(build_changelog(H, E))
\* is (H, E).
C1_RoundTripAnyHeader ==
    (RoundTripDone /\ AllWellFormed(args.entries))
        => parsed = <<args.header, args.entries>>

\* A header parse_changelog gives back: it starts with the tag prefix, holds
\* no entry start and, when entries follow it, ends with a line feed.
RecoverableHeader(h, es) ==
    /\ StartsWith(h, TAG_PREFIX)
    /\ ~Contains(h, ENTRY_START)
    /\ es # <<>> => EndsWith(h, <<"\n">>)

\* An entry parse_changelog gives back: well formed, with text behind the
\* marker that strip() leaves, and not ending in the rule line "\n---\n"
\* (which, with the separator behind it, is cut five characters early).
RecoverableEntry(e) ==
    /\ WellFormedEntry(e)
    /\ IsEntryChunk(e)
    /\ ~EndsWith(e, P_RULE)

AllRecoverable(es) == \A i \in 1..Len(es) : RecoverableEntry(es[i])

\* C1 as amended: parse_changelog(build_changelog(H, E)) is (H, E) for every
\* header H that starts with "###### tags", holds no "\n## " and (when E is
\* not empty) ends with a line feed, and every list E of entries that each
\* start with "## ", hold no separator, keep the marker under strip() and do
\* not end with "\n---\n".
C1_RoundTrip ==
    (RoundTripDone /\ RecoverableHeader(args.header, args.entries)
                   /\ AllRecoverable(args.entries))
        => parsed = <<args.header, args.entries>>

\* C1's case: two recoverable entries under the default header came back.
C1_Witness ==
    /\ RoundTripDone
    /\ args.header = CHANGELOG_HEADER
    /\ Len(args.entries) = 2
    /\ AllRecoverable(args.entries)
    /\ parsed = <<args.header, args.entries>>

\* The 0-based offset at which the body of a document begins: behind the
\* line feed of the first "\n## " under a tag prefix (the end when there is
\* none), the start without a tag prefix.
BodyOffset(doc) ==
    IF ~StartsWith(doc, TAG_PREFIX) THEN 0
    ELSE IF \E p \in 0..Len(doc) : StartsWith(SubSeq(doc, p + 1, Len(doc)), ENTRY_START)
         THEN 1 + MinOf({p \in 0..Len(doc) :
                            StartsWith(SubSeq(doc, p + 1, Len(doc)), ENTRY_START)})
         ELSE Len(doc)

\* The separators of a body read left to right, character by character:
\* the 0-based offsets, from offset at on, at which a separator is consumed.
RECURSIVE SeparatorsFrom(_, _)
SeparatorsFrom(body, at) ==
    IF at + Len(ENTRY_SEPARATOR) > Len(body) THEN <<>>
    ELSE IF SubSeq(body, at + 1, at + Len(ENTRY_SEPARATOR)) = ENTRY_SEPARATOR
         THEN <<at>> \o SeparatorsFrom(body, at + Len(ENTRY_SEPARATOR))
         ELSE SeparatorsFrom(body, at + 1)

\* The chunks the separators delimit, in document order.
ChunksOf(body) ==
    LET cuts == SeparatorsFrom(body, 0)
        from(k) == IF k = 1 THEN 0 ELSE cuts[k - 1] + Len(ENTRY_SEPARATOR)
        to(k) == IF k = Len(cuts) + 1 THEN Len(body) ELSE cuts[k]
    IN  [k \in 1..(Len(cuts) + 1) |-> SubSeq(body, from(k) + 1, to(k))]

\* The chunk's first character that is no whitespace opens "## ", and text
\* that is no whitespace follows the marker.
MarkedChunk(c) ==
    \E i \in 1..Len(c) :
        /\ \A j \in 1..(i - 1) : c[j] \in Whitespace
        /\ i + 2 <= Len(c)
        /\ c[i] = "#" /\ c[i + 1] = "#" /\ c[i + 2] = " "
        /\ \E k \in (i + 3)..Len(c) : c[k] \notin Whitespace

\* C8: parse_changelog returns, for any document, exactly the chunks between
\* separators of the body that begin with "## " once stripped, unmodified and
\* in document order, and drops every other chunk (the empty one behind the
\* last separator too); parse_changelog("") is the default header with no
\* entries.
C8_LenientParse ==
    phase = "parsed" =>
        /\ parsed[2] = SelectSeq(ChunksOf(SubSeq(document, BodyOffset(document) + 1,
                                                 Len(document))), MarkedChunk)
        /\ document = <<>> => parsed = <<CHANGELOG_HEADER, <<>>>>

\* C8's case: a raw document of which an indented entry was kept and another
\* chunk dropped.
C8_Witness ==
    /\ phase = "parsed" /\ args = NoArgs
    /\ Len(parsed[2]) >= 1
    /\ \E i \in 1..Len(parsed[2]) : ~StartsWith(parsed[2][i], ENTRY_MARK)
    /\ Len(SeparatorsFrom(document, 0)) >= Len(parsed[2])

\* ------------------------------------------------------------------------
\* Properties of the runs (under Spec)
\* ------------------------------------------------------------------------

\* The entries a parse of the changelog on disk returns.
PersistedEntries == parse_changelog(changelogFile.text)[2]

\* The header parse of the changelog on disk returns.
PersistedHeader == parse_changelog(changelogFile.text)[1]

\* The header the latest update wrote: line 241.
WrittenHeader == IF existing # <<>> THEN header ELSE CHANGELOG_HEADER

\* The latest run updated the changelog (new_entry is reset when a run starts).
Updated == new_entry # <<>>

\* C2: with a positive maximum N, once a run has updated the changelog the
\* changelog on disk never holds more than N entries, whatever it held before
\* the first run.
C2_BoundedSize ==
    (written # <<>> /\ max_entries > 0) => Len(PersistedEntries) <= max_entries

\* C2's case: the changelog held more than N entries before the first run and
\* holds exactly N after an update.
C2_Witness ==
    /\ written # <<>> /\ max_entries > 0
    /\ Len(parse_changelog(origin.text)[2]) > max_entries
    /\ Len(PersistedEntries) = max_entries

\* C3: the list an update writes is the first N of [new entry] + existing
\* entries when N is positive and all of them otherwise; so with exactly N
\* existing entries it has length N, the new entry first, the others in their
\* old order and the old last one gone; with fewer than N nothing is dropped;
\* with N = 1 only the new entry is left.
C3_TrimResult ==
    Updated =>
        LET old == parse_changelog(existing)[2]
            all == <<new_entry>> \o old
            n == max_entries
            kept == IF n > 0 /\ n < Len(all) THEN n ELSE Len(all)
        IN  /\ entries = [i \in 1..kept |-> all[i]]
            /\ changelogFile.text = build_changelog(WrittenHeader, entries)
            /\ (n > 0 /\ Len(old) = n) =>
                   /\ Len(entries) = n
                   /\ entries[1] = new_entry
                   /\ \A i \in 2..n : entries[i] = old[i - 1]
                   /\ (\A i \in 1..n : all[i] # old[n])
                          => \A i \in 1..n : entries[i] # old[n]
            /\ (n > 0 /\ Len(old) < n) => entries = all
            /\ n = 1 => entries = <<new_entry>>

\* C3's case: an update met exactly N = 2 existing entries and dropped the
\* older one.
C3_Witness ==
    /\ Updated /\ max_entries = 2
    /\ Len(parse_changelog(existing)[2]) = 2
    /\ entries = <<new_entry, parse_changelog(existing)[2][1]>>

\* C4, for a changelog that did not exist before the first run: after any
\* updates the entries parsed from the changelog on disk are the entries the
\* runs added, newest first and cut at the tail to the maximum: never
\* reordered, the latest entry at index 0.
C4_NewestFirst ==
    (written # <<>> /\ ~origin.exists) =>
        PersistedEntries = TrimEntries(written, max_entries)

\* C5: an update keeps the header: it writes the header parsed from the
\* document it found (the default header when it found none), and a parse of
\* the document it wrote returns that header again.
C5_HeaderPreserved ==
    Updated =>
        LET found == atStart.changelog
            hdr == IF found.exists THEN parse_changelog(found.text)[1]
                   ELSE CHANGELOG_HEADER
        IN  /\ StartsWith(changelogFile.text, hdr)
            /\ PersistedHeader = hdr

\* Both fetches of the latest run returned (the raw texts are reset when a run
\* starts, and no fetched text is empty).
Fetched == github_copilot_raw # <<>>

\* Neither fetched text differs from its cached text.
SourcesUnchanged ==
    /\ CacheGet(cache, "gemini_cli") = gemini_cli_raw
    /\ CacheGet(cache, "github_copilot") = github_copilot_raw

\* C6: a run whose sources are unchanged calls no translation and leaves the
\* changelog and the output document as it found them; a run with a changed
\* source prepends exactly one entry to the changelog and has called the
\* translation exactly twice, never more, when it writes the output document.
C6_ChangeGating ==
    /\ (Fetched /\ SourcesUnchanged) =>
           /\ translate_calls = 0
           /\ pc \notin {"translate_gemini", "translate_copilot", "write_output"}
           /\ changelogFile = atStart.changelog
           /\ outputFile = atStart.output
    /\ (Fetched /\ ~SourcesUnchanged) =>
           /\ translate_calls <= 2
           /\ pc = "write_output" => translate_calls = 2
           /\ outputFile # atStart.output => (translate_calls = 2 /\ pc = "idle")
           /\ pc # "changelog" =>
                  LET old == parse_changelog(existing)[2]
                  IN  /\ Updated
                      /\ Len(entries) <= Len(old) + 1
                      /\ changelogFile.text
                             = WrittenHeader \o new_entry \o ENTRY_SEPARATOR
                               \o Concat([i \in 1..(Len(entries) - 1) |->
                                             old[i] \o ENTRY_SEPARATOR])

\* C6's case: a run found both sources unchanged and ended without touching
\* the output document an earlier run wrote.
C6_Witness ==
    /\ pc = "idle" /\ exit = "skipped"
    /\ Fetched /\ SourcesUnchanged
    /\ outputFile.exists

\* The run is past line 247.
CacheSaved ==
    \/ pc \in {"translate_gemini", "translate_copilot", "write_output"}
    \/ pc = "idle" /\ exit \in {"skipped", "done", "translate_error"}

\* C7: a run whose fetches both succeed writes exactly the two fetched texts
\* to the cache, changed or not, after the changelog update and before any
\* translation call; a run that ends in a failed translation leaves the cache
\* and the changelog with the new content and has written no output document.
C7_CachePersistence ==
    /\ CacheSaved =>
           cacheFile = [exists |-> TRUE, gemini_cli |-> gemini_cli_raw,
                        github_copilot |-> github_copilot_raw]
    /\ pc \in {"fetch_gemini", "fetch_copilot", "changelog", "save_cache"} =>
           (cacheFile = cache /\ translate_calls = 0)
    /\ (pc = "save_cache" /\ ~SourcesUnchanged) =>
           (Updated /\ changelogFile.text = build_changelog(WrittenHeader, entries))
    /\ translate_calls > 0 =>
           cacheFile = [exists |-> TRUE, gemini_cli |-> gemini_cli_raw,
                        github_copilot |-> github_copilot_raw]
    /\ (pc = "idle" /\ exit = "translate_error") =>
           /\ ~SourcesUnchanged
           /\ Updated /\ changelogFile.text = build_changelog(WrittenHeader, entries)
           /\ outputFile = atStart.output

\* C7's case: a later run fetched changed sources and its translation failed;
\* the cache holds the new texts and there is no output document.
C7_Witness ==
    /\ pc = "idle" /\ exit = "translate_error"
    /\ cache.exists /\ cacheFile # cache
    /\ ~outputFile.exists

\* C9: every entry a run builds starts with "## " and holds no separator,
\* whatever the fetched texts are, so that a parse of a changelog the runs
\* themselves created returns the entries as written under the default
\* header.
C9_EntrySurvivesParse ==
    Updated =>
        /\ WellFormedEntry(new_entry)
        /\ ~origin.exists =>
               parse_changelog(changelogFile.text) = <<CHANGELOG_HEADER, entries>>

\* The output document on disk is the translation of the two cached texts.
OutputOfCache ==
    /\ outputFile.exists
    /\ outputFile.gemini = Translation(cacheFile.gemini_cli, TITLE_GEMINI)
    /\ outputFile.copilot = Translation(cacheFile.github_copilot, TITLE_COPILOT)

\* C10 as stated: when a run ends normally, with or without translating, the
\* output document on disk is the translation of the two texts the cache
\* holds.
C10_OutputMatchesCache ==
    (pc = "idle" /\ exit \in {"done", "skipped"}) => OutputOfCache

\* C10 as amended: when a run ends normally after translating, the output
\* document on disk is the translation of the two texts the cache holds; a
\* run that ends normally without translating leaves the output document and
\* the cached texts as it found them, so the output document stays missing or
\* stale when an earlier run saved the cache and then failed to translate.
C10_OutputAfterRun ==
    /\ (pc = "idle" /\ exit = "done") => OutputOfCache
    /\ (pc = "idle" /\ exit = "skipped") =>
           (outputFile = atStart.output /\ cacheFile = cache)

\* C10's case: a run ended normally without translating although the cached
\* texts were never translated.
C10_Witness ==
    /\ pc = "idle" /\ exit = "skipped"
    /\ cacheFile.exists
    /\ ~outputFile.exists

====
